---------------------------- MODULE Spec2Model ----------------------------
(***************************************************************************)
(* Chunked file transfer over a publish/subscribe bus                      *)
(* (file_transfer.py: ChunkedFilePublisher / ChunkedFileSubscriber).       *)
(*                                                                         *)
(* The receiver keeps no transfer state in memory: every handler loads     *)
(* state.json, works on the data file and saves state.json again.  The     *)
(* model keeps state.json (stateFile) and the storage directory (files)    *)
(* as variables and translates each handler as one atomic step.            *)
(***************************************************************************)
EXTENDS Integers, Sequences, FiniteSets, TLC

(* ---------------------------- bounds ----------------------------------- *)
MaxSize == 2
MaxChunkSize == 2
MaxAcks == 2
MaxMessages == 2
MaxEcho == 4

(* ---------------------------- values ----------------------------------- *)
\* Byte values of file contents; 0 is also what the file system fills holes with.
Byte == {0, 1}

\* Python's Optional: None is the empty sequence, a value x is <<x>>.
None == <<>>

Some(x) == <<x>>

\* dict.get(key): None when the key is absent.
Get(dict, key) == IF key \in DOMAIN dict THEN Some(dict[key]) ELSE None

\* Python truthiness of an Optional int ("x or default", "if x").
TruthyInt(opt) == opt /= None /\ opt[1] /= 0

\* Python truthiness of an Optional list.
TruthyList(opt) == opt /= None /\ Len(opt[1]) > 0

SeqsUpTo(S, n) == UNION {[1..k -> S] : k \in 0..n}

Min(a, b) == IF a < b THEN a ELSE b

SeqToSet(s) == {s[k] : k \in 1..Len(s)}

\* The one transfer's file_id (generate_file_id: <basename>-<size>-<random>).
FileId == "fid"

\* os.path.basename(file_path) of the source file.
SrcName == "src.bin"

FileNames == {SrcName}

\* hashlib.sha256(...).hexdigest(): a collision-free digest of the bytes.
Sha256(bytes) == [alg |-> "sha256", of |-> bytes]

\* bytes.hex(): two hex digits (values 0..15) per byte.
Hex(bytes) ==
  [k \in 1..(2 * Len(bytes)) |->
     IF k % 2 = 1 THEN bytes[(k + 1) \div 2] \div 16 ELSE bytes[k \div 2] % 16]

\* bytes.fromhex() of an even-length digit string.
FromHex(digits) ==
  [k \in 1..(Len(digits) \div 2) |-> 16 * digits[2 * k - 1] + digits[2 * k]]

(* ---------------------------- sender side ------------------------------ *)
\* total_chunks = (total_size + chunk_size - 1) // chunk_size
TotalChunks(size, cs) == (size + cs - 1) \div cs

\* The read loop "data = f.read(chunk_size); if not data: break": the list of
\* blocks read from the file, in order.  f.read of a negative size reads to
\* the end of the file; f.read(0) returns no data.
RECURSIVE ReadChunks(_, _)
ReadChunks(bytes, cs) ==
  IF Len(bytes) = 0 \/ cs = 0 THEN <<>>
  ELSE LET n == IF cs < 0 THEN Len(bytes) ELSE Min(cs, Len(bytes))
       IN <<SubSeq(bytes, 1, n)>> \o ReadChunks(SubSeq(bytes, n + 1, Len(bytes)), cs)

RECURSIVE Concat(_)
Concat(blocks) ==
  IF Len(blocks) = 0 THEN <<>> ELSE Head(blocks) \o Concat(Tail(blocks))

\* The manifest send_file builds (first pass over the file).
BuildManifest(bytes, cs) ==
  LET blocks == ReadChunks(bytes, cs) IN
  [ file_id      |-> FileId,
    name         |-> SrcName,
    size         |-> Len(bytes),
    chunk_size   |-> cs,
    total_chunks |-> TotalChunks(Len(bytes), cs),
    file_sha256  |-> Sha256(Concat(blocks)),
    chunk_sha256 |-> [k \in 1..Len(blocks) |-> Sha256(blocks[k])] ]

\* The chunk payload of the second pass, index counted from 0.
ChunkPayload(bytes, cs, index) ==
  LET blocks == ReadChunks(bytes, cs) IN
  [ file_id     |-> FileId,
    chunk_index |-> index,
    sha256      |-> BuildManifest(bytes, cs).chunk_sha256[index + 1],
    data        |-> Hex(blocks[index + 1]) ]

MetaMsg(bytes, cs) == [kind |-> "meta", body |-> BuildManifest(bytes, cs)]

ChunkMsg(bytes, cs, index) == [kind |-> "chunk", body |-> ChunkPayload(bytes, cs, index)]

ProbeMsg == [kind |-> "status", body |-> [request |-> "status"]]

(* ---------------------------- receiver side ---------------------------- *)
\* What _load_state returns when state.json does not exist.
DefaultState ==
  [ file_id      |-> FileId,
    name         |-> None,
    size         |-> None,
    chunk_size   |-> None,
    total_chunks |-> None,
    file_sha256  |-> None,
    chunk_sha256 |-> None,
    received     |-> <<>>,
    complete     |-> FALSE,
    ack_sent     |-> FALSE ]

\* _load_state: sf is the content of state.json, None while the file is absent.
LoadState(sf) == IF sf = None THEN DefaultState ELSE sf[1]

\* _save_state: state.json is overwritten with the whole dictionary.
SaveState(state) == Some(state)

\* state.json as write_text leaves it when the write does not finish: the
\* file was truncated on opening and holds nothing or the beginning of the
\* JSON text.  json.loads of it raises JSONDecodeError.
TornFile == Some([torn |-> TRUE])

\* The storage directory before any data file is written.
NoFiles == [n \in FileNames |-> None]

\* fp.seek(off); fp.write(blob) on a file opened "r+b": a seek past the end
\* leaves a hole of zero bytes once something is written; writing nothing
\* does not extend the file.
WriteAt(content, off, blob) ==
  IF Len(blob) = 0 THEN content
  ELSE LET padded == IF Len(content) < off
                       THEN content \o [k \in 1..(off - Len(content)) |-> 0]
                       ELSE content
       IN SubSeq(padded, 1, off) \o blob
            \o SubSeq(padded, off + Len(blob) + 1, Len(padded))

\* Python list indexing with an index that may be negative.
PyIndex(list, idx) == IF idx >= 0 THEN list[idx + 1] ELSE list[Len(list) + idx + 1]

\* missing = [i for i in range(total) if i not in have], from index i on.
MissingFrom(i, total, have) ==
  SelectSeq([k \in 1..(total - i) |-> i + k - 1], LAMBDA j : j \notin have)

\* missing[:500]
StatusCap == 500

\* Variant of the slice that keeps the whole list.
Uncapped(list) == list

Capped(list) == SubSeq(list, 1, Min(StatusCap, Len(list)))

\* _emit_status: the messages published, from the state.json given.
EmitStatus(sf) ==
  LET state   == LoadState(sf)
      total   == state.total_chunks
      missing == IF total /= None
                   THEN MissingFrom(0, total[1], SeqToSet(state.received))
                   ELSE <<>>
      status  == [kind |-> "status",
                  body |-> [ file_id  |-> FileId,
                             received |-> Len(state.received),
                             total    |-> total,
                             missing  |-> Capped(missing),
                             complete |-> state.complete ]]
      retry   == [kind |-> "retry",
                  body |-> [file_id |-> FileId, missing |-> Capped(missing)]]
  IN IF Len(missing) > 0 THEN <<status, retry>> ELSE <<status>>

AckMsg == [kind |-> "ack", body |-> [file_id |-> FileId, status |-> "ok"]]

\* _emit_ack: publishes the ack and persists ack_sent unless it is already set.
EmitAck(sf) ==
  LET state == LoadState(sf) IN
  IF state.ack_sent
    THEN [stateFile |-> sf, pubs |-> <<>>]
    ELSE [stateFile |-> SaveState([state EXCEPT !.ack_sent = TRUE]),
          pubs      |-> <<AckMsg>>]

\* What a handler leaves behind: state.json, the storage directory, the
\* messages it published, and whether it ended by raising (the exception is
\* caught and logged by MQTTSubscriber._on_message).
Outcome(sf, fs, published, exc) ==
  [stateFile |-> sf, files |-> fs, pubs |-> published, raised |-> exc]

\* The per-chunk check of _handle_chunk: true when the chunk is rejected.
\* It is skipped when the manifest lists no hash for the index.
ChunkHashMismatch(state, idx, blob) ==
  /\ TruthyList(state.chunk_sha256)
  /\ idx < Len(state.chunk_sha256[1])
  /\ Sha256(blob) /= PyIndex(state.chunk_sha256[1], idx)

\* "if idx not in state['received']: state['received'].append(idx)"
MarkReceived(state, idx) ==
  IF idx \in SeqToSet(state.received)
    THEN state
    ELSE [state EXCEPT !.received = Append(@, idx)]

\* The guard of the completion check.
CompletionDue(state) ==
  /\ state.total_chunks /= None
  /\ Len(state.received) >= state.total_chunks[1]
  /\ ~state.complete

\* Variant of the whole-file check that never reports a mismatch.
WholeFileUnchecked(state, content) == FALSE

\* The whole-file check: the data file is read block by block into one
\* hasher; true when the digest differs from a known file_sha256.
WholeFileMismatch(state, content) ==
  /\ state.file_sha256 /= None
  /\ Sha256(content) /= state.file_sha256[1]

\* The cadence of the unsolicited status: len(received) % 50 == 0.
StatusEvery == 50

\* Variant of _handle_meta that builds the state afresh instead of updating
\* the loaded one.
HandleMetaFresh(sf, fs, meta) ==
  LET state1 == [DefaultState EXCEPT !.name         = Some(meta.name),
                                     !.size         = Some(meta.size),
                                     !.chunk_size   = Some(meta.chunk_size),
                                     !.total_chunks = Some(meta.total_chunks),
                                     !.file_sha256  = Some(meta.file_sha256),
                                     !.chunk_sha256 = Some(meta.chunk_sha256)]
      sf1    == SaveState(state1)
  IN Outcome(sf1, fs, EmitStatus(sf1), FALSE)

\* The keys _handle_meta reads with meta[...]; a payload without one of
\* them raises KeyError before anything is saved.
MetaKeys == {"file_id", "name", "size", "chunk_size", "total_chunks"}

\* _handle_meta
HandleMeta(sf, fs, meta) ==
  IF ~(MetaKeys \subseteq DOMAIN meta)
    THEN Outcome(sf, fs, <<>>, TRUE)
    ELSE
      LET state  == LoadState(sf)
          state1 == [state EXCEPT !.name         = Some(meta.name),
                                  !.size         = Some(meta.size),
                                  !.chunk_size   = Some(meta.chunk_size),
                                  !.total_chunks = Some(meta.total_chunks),
                                  !.file_sha256  = Get(meta, "file_sha256"),
                                  !.chunk_sha256 = Get(meta, "chunk_sha256")]
          sf1    == SaveState(state1)
      IN Outcome(sf1, fs, EmitStatus(sf1), FALSE)

\* The tail of _handle_chunk, from the completion check on; state1 has been
\* saved and fs holds the data file as written.
CompletionCheck(state1, fs) ==
  LET sf1 == SaveState(state1) IN
  IF CompletionDue(state1)
    THEN LET state2 == [state1 EXCEPT !.complete = TRUE] IN
         IF WholeFileMismatch(state2, fs[state2.name[1]][1])
           THEN LET sf3 == SaveState([state2 EXCEPT !.complete = FALSE])
                IN Outcome(sf3, fs, EmitStatus(sf3), FALSE)
           ELSE LET ack == EmitAck(SaveState(state2))
                IN Outcome(ack.stateFile, fs, ack.pubs, FALSE)
    ELSE IF Len(state1.received) % StatusEvery = 0
           THEN Outcome(sf1, fs, EmitStatus(sf1), FALSE)
           ELSE Outcome(sf1, fs, <<>>, FALSE)

\* "state['chunk_size'] or len(blob)"
Stride(state, blob) ==
  IF TruthyInt(state.chunk_size) THEN state.chunk_size[1] ELSE Len(blob)

\* "if not data_path.exists(): data_path.write_bytes(b'')"
Touched(fs, name) == IF fs[name] = None THEN [fs EXCEPT ![name] = Some(<<>>)] ELSE fs

\* The storage directory after blob was written into the data file at off.
Written(fs, name, off, blob) ==
  [Touched(fs, name) EXCEPT ![name] = Some(WriteAt(Touched(fs, name)[name][1], off, blob))]

\* _handle_chunk from the creation of the data file on, for a state that
\* names the data file.
PlaceChunk(sf, fs, idx, blob) ==
  LET state == LoadState(sf)
      name  == state.name[1]
      off   == idx * Stride(state, blob)
  IN
  IF off < 0
    THEN \* fp.seek of a negative offset raises OSError
         Outcome(sf, Touched(fs, name), <<>>, TRUE)
    ELSE
      LET fs2 == Written(fs, name, off, blob) IN
      IF ChunkHashMismatch(state, idx, blob)
        THEN Outcome(sf, fs2, EmitStatus(sf), FALSE)
        ELSE CompletionCheck(MarkReceived(state, idx), fs2)

\* Variant of _handle_chunk that records a chunk arriving before the
\* manifest as received, without placing its bytes.
HandleChunkEarlyAccepted(sf, fs, chunk) ==
  IF LoadState(sf).name = None
    THEN CompletionCheck(MarkReceived(LoadState(sf), chunk.chunk_index), fs)
    ELSE PlaceChunk(sf, fs, chunk.chunk_index, FromHex(chunk.data))

\* The keys _handle_chunk reads with chunk[...] before it loads the state;
\* the chunk's own "sha256" is never read.
ChunkKeys == {"file_id", "chunk_index", "data"}

\* _handle_chunk
HandleChunk(sf, fs, chunk) ==
  IF ~(ChunkKeys \subseteq DOMAIN chunk)
    THEN \* KeyError
         Outcome(sf, fs, <<>>, TRUE)
    ELSE IF LoadState(sf).name = None
      THEN \* _data_path: the directory path joined with None raises TypeError
           Outcome(sf, fs, <<>>, TRUE)
      ELSE PlaceChunk(sf, fs, chunk.chunk_index, FromHex(chunk.data))

\* ChunkedFileSubscriber._on_message: a payload that does not decode as
\* UTF-8 JSON (a message without body) is logged and ignored; the others are
\* dispatched on the last topic segment.
OnMessage(sf, fs, msg) ==
  CASE "body" \notin DOMAIN msg -> Outcome(sf, fs, <<>>, FALSE)
    [] sf = TornFile /\ msg.kind \in {"meta", "chunk", "status"} ->
         \* every handler reads state.json before anything else
         Outcome(sf, fs, <<>>, TRUE)
    [] msg.kind = "meta"   -> HandleMeta(sf, fs, msg.body)
    [] msg.kind = "chunk"  -> HandleChunk(sf, fs, msg.body)
    [] msg.kind = "status" -> Outcome(sf, fs, EmitStatus(sf), FALSE)
    [] OTHER               -> Outcome(sf, fs, <<>>, FALSE)

\* The number of acks among published messages.
AckCount(published) == Cardinality({k \in 1..Len(published) : published[k].kind = "ack"})

(* ---------------------------- state ------------------------------------ *)
VARIABLES
  source,        \* the bytes of the file being sent
  chunk_size,    \* the sender's chunk_size argument
  stateFile,     \* <storage>/<file_id>/state.json (None: no such file)
  files,         \* <storage>/<file_id>/<name>, by name (None: no such file)
  message_count, \* MQTTSubscriber.message_count of the running receiver
  pubs,          \* the messages the receiver published in its last handler
  acks,          \* the number of acks the receiver has published
  pc,            \* the sender's position in send_file
  index,         \* the sender's chunk loop variable
  bus,           \* messages published and not yet delivered to the receiver
  path_ok,       \* os.path.isfile(file_path) at the call of send_file
  pub_connected, \* MQTTPublisher.is_connected of the sender
  raised,        \* the exception send_file ended with ("none": none so far)
  sub_connected, \* MQTTSubscriber.is_connected of the receiver
  subscribed     \* the broker holds the receiver's subscription <prefix>/file/+/+

vars == <<source, chunk_size, stateFile, files, message_count, pubs, acks,
          pc, index, bus, path_ok, pub_connected, raised, sub_connected, subscribed>>

\* What the caller of send_file sees besides the file and chunk_size.
caller == <<path_ok, pub_connected, raised>>

\* The receiver's bus session.
session == <<sub_connected, subscribed>>

\* A receiver that has been started (ChunkedFileSubscriber.start) and a
\* sender that has not been called yet, with a file to send and a valid
\* chunk_size; the publisher connects when send_file is called.

Init ==
  /\ source \in SeqsUpTo(Byte, MaxSize)
  /\ chunk_size \in 1..MaxChunkSize
  /\ stateFile = None
  /\ files = NoFiles
  /\ message_count = 0
  /\ pubs = <<>>
  /\ acks = 0
  /\ pc = "idle"
  /\ index = 0
  /\ bus = <<>>
  /\ path_ok = TRUE
  /\ pub_connected = FALSE
  /\ raised = "none"
  /\ sub_connected = TRUE
  /\ subscribed = TRUE

\* MQTTSubscriber._on_message followed by the file receiver's handler.
Receive(msg) ==
  LET out == OnMessage(stateFile, files, msg) IN
  /\ message_count' = message_count + 1
  /\ stateFile' = out.stateFile
  /\ files' = out.files
  /\ pubs' = out.pubs
  /\ acks' = acks + AckCount(out.pubs)

(* ------------------- arbitrary inbound message streams ----------------- *)
\* A block with its first byte changed.
Corrupt(block) == [block EXCEPT ![1] = 1 - @]

\* The byte strings an arbitrary publisher puts into chunk messages here: the
\* blocks of the source file, each block corrupted, a stray byte, and nothing.
Blobs ==
  LET blocks == SeqToSet(ReadChunks(source, chunk_size)) IN
  blocks \cup {Corrupt(b) : b \in blocks} \cup {<<>>, <<1>>}

\* Chunk payloads an arbitrary publisher may put on the chunk topic: any of
\* these byte strings under any index from -1 to one past the last chunk.
AnyChunks ==
  { [file_id |-> FileId, chunk_index |-> i, sha256 |-> Sha256(b), data |-> Hex(b)] :
      i \in -1..TotalChunks(Len(source), chunk_size), b \in Blobs }

Within == message_count < MaxMessages /\ acks < MaxAcks

DeliverMeta ==
  /\ Within
  /\ Receive(MetaMsg(source, chunk_size))
  /\ UNCHANGED <<source, chunk_size, pc, index, bus, caller, session>>

DeliverChunk ==
  /\ Within
  /\ \E c \in AnyChunks : Receive([kind |-> "chunk", body |-> c])
  /\ UNCHANGED <<source, chunk_size, pc, index, bus, caller, session>>

DeliverProbe ==
  /\ Within
  /\ Receive(ProbeMsg)
  /\ UNCHANGED <<source, chunk_size, pc, index, bus, caller, session>>

\* Variant of the restart in which the new process finds no state.json.
RestartFresh ==
  /\ message_count' = 0
  /\ stateFile' = None
  /\ UNCHANGED <<source, chunk_size, files, pubs, acks, pc, index, bus, caller, session>>

\* The receiver process is stopped and started again (receive_files.main):
\* a new MQTTSubscriber is built; the storage directory is what it was.
Restart ==
  /\ message_count' = 0
  /\ UNCHANGED <<source, chunk_size, stateFile, files, pubs, acks, pc, index, bus,
                 caller, session>>

Next == DeliverMeta \/ DeliverChunk \/ DeliverProbe \/ Restart

Spec == Init /\ [][Next]_vars

(* ---------------------- topics of several file_ids -------------------- *)
\* The file_id of another transfer.
OtherId == "other"

FileIds == {FileId, OtherId}

\* ChunkedFileSubscriber._on_message for a message on the topic
\* <prefix>/file/<topic_id>/<kind>, as far as the storage of FileId goes:
\* _handle_meta and _handle_chunk are handed the payload alone and work on
\* the storage of the file_id it names; _emit_status is handed the file_id of
\* the topic.  What concerns the storage of another file_id leaves this one
\* alone and is not recorded.
OnTopic(sf, fs, topic_id, msg) ==
  CASE "body" \notin DOMAIN msg -> Outcome(sf, fs, <<>>, FALSE)
    [] msg.kind \in {"meta", "chunk"} ->
         IF "file_id" \in DOMAIN msg.body /\ msg.body.file_id /= FileId
           THEN Outcome(sf, fs, <<>>, FALSE)
           ELSE OnMessage(sf, fs, msg)
    [] msg.kind = "status" ->
         IF topic_id /= FileId
           THEN Outcome(sf, fs, <<>>, FALSE)
           ELSE OnMessage(sf, fs, msg)
    [] OTHER -> Outcome(sf, fs, <<>>, FALSE)

\* MQTTSubscriber._on_message followed by the handler, for a message on the
\* topic of topic_id.
ReceiveOn(topic_id, msg) ==
  LET out == OnTopic(stateFile, files, topic_id, msg) IN
  /\ message_count' = message_count + 1
  /\ stateFile' = out.stateFile
  /\ files' = out.files
  /\ pubs' = out.pubs
  /\ acks' = acks + AckCount(out.pubs)

\* The messages of the transfer of the source, with payloads naming either
\* file_id, a probe, and messages of kinds the receiver does not handle.
TopicMessages ==
  { [MetaMsg(source, chunk_size) EXCEPT !.body.file_id = id] : id \in FileIds }
  \cup { [ChunkMsg(source, chunk_size, i) EXCEPT !.body.file_id = id] :
           i \in 0..(Len(ReadChunks(source, chunk_size)) - 1), id \in FileIds }
  \cup { ProbeMsg, AckMsg, [kind |-> "progress", body |-> [file_id |-> FileId]] }

DeliverOnTopic ==
  /\ Within
  /\ \E topic_id \in FileIds, msg \in TopicMessages : ReceiveOn(topic_id, msg)
  /\ UNCHANGED <<source, chunk_size, pc, index, bus, caller, session>>

NextTopics == DeliverOnTopic \/ DeliverChunk \/ Restart

SpecTopics == Init /\ [][NextTopics]_vars

(* ------------------------- malformed messages -------------------------- *)
\* A JSON object without one of its keys.
Drop(dict, key) == [k \in DOMAIN dict \ {key} |-> dict[k]]

\* Manifests of the source that are inconsistent or incomplete: total_chunks
\* is not ceil(size / chunk_size), chunk_sha256 has not total_chunks entries,
\* file_sha256 or chunk_sha256 is absent.
BadManifests ==
  LET meta == BuildManifest(source, chunk_size) IN
  { [meta EXCEPT !.total_chunks = @ + 1],
    [meta EXCEPT !.chunk_sha256 = Append(@, Sha256(<<>>))],
    Drop(meta, "file_sha256"),
    Drop(meta, "chunk_sha256") }

\* Payloads that are not UTF-8 JSON, on each kind of topic.
Undecodable == { [kind |-> k, raw |-> "garbage"] : k \in {"meta", "chunk", "status"} }

\* JSON payloads lacking a field of their kind.
LackingFields ==
  LET meta == BuildManifest(source, chunk_size) IN
  { [kind |-> "meta", body |-> Drop(meta, key)] :
      key \in {"name", "total_chunks", "file_sha256", "chunk_sha256"} }
  \cup { [kind |-> "chunk", body |-> Drop(ChunkPayload(source, chunk_size, i), key)] :
           i \in 0..(Len(ReadChunks(source, chunk_size)) - 1),
           key \in {"chunk_index", "data", "sha256"} }
  \cup { [kind |-> "status", body |-> Drop(ProbeMsg.body, "request")] }

Malformed == Undecodable \cup LackingFields

DeliverBadMeta ==
  /\ Within
  /\ \E meta \in BadManifests : Receive([kind |-> "meta", body |-> meta])
  /\ UNCHANGED <<source, chunk_size, pc, index, bus, caller, session>>

DeliverMalformed ==
  /\ Within
  /\ \E msg \in Malformed : Receive(msg)
  /\ UNCHANGED <<source, chunk_size, pc, index, bus, caller, session>>

NextMalformed ==
  \/ DeliverMeta
  \/ DeliverChunk
  \/ DeliverProbe
  \/ DeliverBadMeta
  \/ DeliverMalformed

SpecMalformed == Init /\ [][NextMalformed]_vars

(* ------------------ handlers that do not run to their end -------------- *)
\* The handler of the chunk gets as far as the completion check and enters it.
EntersCompletion(sf, chunk) ==
  LET state == LoadState(sf)
      idx   == chunk.chunk_index
      blob  == FromHex(chunk.data)
  IN /\ state.name /= None
     /\ idx * Stride(state, blob) >= 0
     /\ ~ChunkHashMismatch(state, idx, blob)
     /\ CompletionDue(MarkReceived(state, idx))

\* state.json after "state['complete'] = True; self._save_state(state)".
CompletePersisted(sf, chunk) ==
  SaveState([MarkReceived(LoadState(sf), chunk.chunk_index) EXCEPT !.complete = TRUE])

\* The data file after the chunk was written.
ChunkWritten(sf, fs, chunk) ==
  LET state == LoadState(sf)
      blob  == FromHex(chunk.data)
  IN Written(fs, state.name[1], chunk.chunk_index * Stride(state, blob), blob)

\* The receiver process is killed while a chunk handler is between the save
\* of complete = True and the publication of the ack; it is started again
\* (receive_files.main).
CrashAfterComplete ==
  /\ Within
  /\ \E c \in AnyChunks :
       /\ EntersCompletion(stateFile, c)
       /\ stateFile' = CompletePersisted(stateFile, c)
       /\ files' = ChunkWritten(stateFile, files, c)
  /\ pubs' = <<>>
  /\ message_count' = 0
  /\ UNCHANGED <<source, chunk_size, acks, pc, index, bus, caller, session>>

\* Reading the data file for the whole-file hash, or publishing the ack,
\* raises: "except Exception" logs the error and calls _emit_status; complete
\* has been saved, ack_sent has not.
VerificationRaises ==
  /\ Within
  /\ \E c \in AnyChunks :
       /\ EntersCompletion(stateFile, c)
       /\ stateFile' = CompletePersisted(stateFile, c)
       /\ files' = ChunkWritten(stateFile, files, c)
       /\ pubs' = EmitStatus(CompletePersisted(stateFile, c))
  /\ message_count' = message_count + 1
  /\ UNCHANGED <<source, chunk_size, acks, pc, index, bus, caller, session>>

NextCrash == Next \/ CrashAfterComplete \/ VerificationRaises

SpecCrash == Init /\ [][NextCrash]_vars

(* --------------------------- failing writes ---------------------------- *)
\* The handler of the chunk gets as far as the write of the data file.
ReachesWrite(sf, chunk) ==
  /\ sf /= TornFile
  /\ LoadState(sf).name /= None
  /\ chunk.chunk_index * Stride(LoadState(sf), FromHex(chunk.data)) >= 0

\* The handler of the chunk gets as far as "self._save_state(state)" after
\* the chunk was marked received.
ReachesSave(sf, chunk) ==
  /\ ReachesWrite(sf, chunk)
  /\ ~ChunkHashMismatch(LoadState(sf), chunk.chunk_index, FromHex(chunk.data))

\* fp.write of the chunk raises OSError (the disk is full): the data file
\* exists and holds the chunk or not; state.json is not touched.
DeliverChunkWriteFails ==
  /\ Within
  /\ \E c \in AnyChunks :
       /\ ReachesWrite(stateFile, c)
       /\ files' \in { Touched(files, LoadState(stateFile).name[1]),
                        ChunkWritten(stateFile, files, c) }
  /\ pubs' = <<>>
  /\ message_count' = message_count + 1
  /\ UNCHANGED <<source, chunk_size, stateFile, acks, pc, index, bus, caller, session>>

\* write_text of state.json does not finish (the disk is full): the chunk is
\* in the data file, state.json is torn, the exception ends the handler.
DeliverChunkTornSave ==
  /\ Within
  /\ \E c \in AnyChunks :
       /\ ReachesSave(stateFile, c)
       /\ files' = ChunkWritten(stateFile, files, c)
  /\ stateFile' = TornFile
  /\ pubs' = <<>>
  /\ message_count' = message_count + 1
  /\ UNCHANGED <<source, chunk_size, acks, pc, index, bus, caller, session>>

NextFaults == Next \/ DeliverChunkWriteFails \/ DeliverChunkTornSave

SpecFaults == Init /\ [][NextFaults]_vars

(* ---------------------- manifests from any publisher ------------------- *)
\* The manifests a publisher may put on the meta topic of the file_id: the
\* manifest send_file builds for any file and any valid chunk_size.
AnyManifests ==
  { BuildManifest(bytes, cs) : bytes \in SeqsUpTo(Byte, MaxSize), cs \in 1..MaxChunkSize }

DeliverAnyMeta ==
  /\ Within
  /\ \E meta \in AnyManifests : Receive([kind |-> "meta", body |-> meta])
  /\ UNCHANGED <<source, chunk_size, pc, index, bus, caller, session>>

NextRemeta == DeliverAnyMeta \/ DeliverChunk \/ DeliverProbe

SpecRemeta == Init /\ [][NextRemeta]_vars

(* ------------------------ send_file and the bus ------------------------ *)
\* send_file up to the publication of the manifest: the file exists, the
\* publisher is connected or connect() establishes the session, total_chunks
\* is computed and the first pass builds the manifest.
SendManifest ==
  /\ pc = "idle"
  /\ path_ok
  /\ chunk_size /= 0
  /\ pub_connected' = TRUE
  /\ bus' = Append(bus, MetaMsg(source, chunk_size))
  /\ pc' = "chunks"
  /\ index' = 0
  /\ UNCHANGED <<source, chunk_size, stateFile, files, message_count, pubs, acks,
                 path_ok, raised, session>>

\* MQTTPublisher.publish: the message goes to the bus when the publisher is
\* connected; otherwise publish logs an error and returns False.  send_file
\* does not look at the value returned.
Publish(queue, connected, msg) == IF connected THEN Append(queue, msg) ELSE queue

\* One round of the second pass: f.read returned data, the chunk is published.
SendChunk ==
  /\ pc = "chunks"
  /\ index < Len(ReadChunks(source, chunk_size))
  /\ bus' = Publish(bus, pub_connected, ChunkMsg(source, chunk_size, index))
  /\ index' = index + 1
  /\ UNCHANGED <<source, chunk_size, stateFile, files, message_count, pubs, acks, pc,
                 caller, session>>

\* f.read returned nothing: the loop ends, the status inquiry is published
\* and send_file returns the file_id.
SendProbe ==
  /\ pc = "chunks"
  /\ index = Len(ReadChunks(source, chunk_size))
  /\ bus' = Publish(bus, pub_connected, ProbeMsg)
  /\ pc' = "done"
  /\ UNCHANGED <<source, chunk_size, stateFile, files, message_count, pubs, acks, index,
                 caller, session>>

\* The bus hands the receiver the oldest undelivered message (QoS 1/2 order).
BusDeliverNext ==
  /\ Len(bus) > 0
  /\ Receive(Head(bus))
  /\ bus' = Tail(bus)
  /\ UNCHANGED <<source, chunk_size, pc, index, caller, session>>

\* The bus hands the receiver any undelivered message: each message is
\* delivered once, in no particular order.
BusDeliverAny ==
  /\ \E k \in 1..Len(bus) :
       /\ Receive(bus[k])
       /\ bus' = SubSeq(bus, 1, k - 1) \o SubSeq(bus, k + 1, Len(bus))
  /\ UNCHANGED <<source, chunk_size, pc, index, caller, session>>

NextLossless == SendManifest \/ SendChunk \/ SendProbe \/ BusDeliverNext

SpecLossless == Init /\ [][NextLossless]_vars

NextReorder == SendManifest \/ SendChunk \/ SendProbe \/ BusDeliverAny

SpecReorder == Init /\ [][NextReorder]_vars

(* ------------------ the receiver's own publications -------------------- *)
\* The broker hands the receiver the oldest message, and what the handler
\* publishes (status, retry, ack on <prefix>/file/<file_id>/...) is routed
\* back to the receiver as well: these topics match its own subscription
\* <prefix>/file/+/+.
BusDeliverEcho ==
  /\ message_count < MaxEcho
  /\ Len(bus) > 0
  /\ Receive(Head(bus))
  /\ bus' = Tail(bus) \o pubs'
  /\ UNCHANGED <<source, chunk_size, pc, index, caller, session>>

NextEcho == SendManifest \/ SendChunk \/ SendProbe \/ BusDeliverEcho

SpecEcho == Init /\ [][NextEcho]_vars

(* ----------------------- the receiver's bus session -------------------- *)
\* MQTTConfig.CLEAN_SESSION: the broker keeps nothing of a session that ended.
CleanSession == TRUE

\* subscriber._requested_topics as ChunkedFileSubscriber.__init__ leaves it.
RequestedTopics == <<>>

\* The receiver loses its session (network failure, broker restart):
\* _on_disconnect clears is_connected; with a clean session the broker has
\* dropped the subscription made by start().
SessionLost ==
  /\ sub_connected
  /\ sub_connected' = FALSE
  /\ subscribed' = (IF CleanSession THEN FALSE ELSE subscribed)
  /\ UNCHANGED <<source, chunk_size, stateFile, files, message_count, pubs, acks,
                 pc, index, bus, caller>>

\* The client's network loop reconnects; _on_connect (rc = 0) sets
\* is_connected and subscribes to _requested_topics if there are any.
Reconnect ==
  /\ ~sub_connected
  /\ sub_connected' = TRUE
  /\ subscribed' = (IF Len(RequestedTopics) > 0 THEN TRUE ELSE subscribed)
  /\ UNCHANGED <<source, chunk_size, stateFile, files, message_count, pubs, acks,
                 pc, index, bus, caller>>

\* The broker routes the oldest message to the receiver's subscription.
BusDeliverSubscribed == subscribed /\ BusDeliverNext

\* No subscription of the receiver matches: the broker does not keep the
\* message for it.
BusDiscard ==
  /\ ~subscribed
  /\ Len(bus) > 0
  /\ bus' = Tail(bus)
  /\ UNCHANGED <<source, chunk_size, stateFile, files, message_count, pubs, acks,
                 pc, index, caller, session>>

NextSession ==
  \/ SendManifest
  \/ SendChunk
  \/ SendProbe
  \/ SessionLost
  \/ Reconnect
  \/ BusDeliverSubscribed
  \/ BusDiscard

SpecSession == Init /\ [][NextSession]_vars

(* --------------------- send_file and its caller ------------------------ *)
\* The chunk_size arguments a caller may pass, valid or not.
ChunkSizeArgs == (-1)..MaxChunkSize

\* send_file is called with a path that is a file or not, with any of these
\* chunk sizes, on a publisher that is connected already or not.
InitSender ==
  /\ source \in SeqsUpTo(Byte, MaxSize)
  /\ chunk_size \in ChunkSizeArgs
  /\ path_ok \in BOOLEAN
  /\ pub_connected \in BOOLEAN
  /\ stateFile = None
  /\ files = NoFiles
  /\ message_count = 0
  /\ pubs = <<>>
  /\ acks = 0
  /\ pc = "idle"
  /\ index = 0
  /\ bus = <<>>
  /\ raised = "none"
  /\ sub_connected = TRUE
  /\ subscribed = TRUE

\* "if not os.path.isfile(file_path): raise FileNotFoundError(file_path)"
SendFileNotFound ==
  /\ pc = "idle"
  /\ ~path_ok
  /\ raised' = "FileNotFoundError"
  /\ pc' = "failed"
  /\ UNCHANGED <<source, chunk_size, stateFile, files, message_count, pubs, acks,
                 index, bus, path_ok, pub_connected, session>>

\* Variant of the failed connect in which the connection is looked at only
\* after the status inquiry has been published.
SendConnectFailedLate ==
  /\ pc = "idle"
  /\ path_ok
  /\ ~pub_connected
  /\ bus' = Append(bus, ProbeMsg)
  /\ raised' = "RuntimeError"
  /\ pc' = "failed"
  /\ UNCHANGED <<source, chunk_size, stateFile, files, message_count, pubs, acks,
                 index, path_ok, pub_connected, session>>

\* The publisher is not connected and MQTTPublisher.connect returns False:
\* the wait for is_connected timed out, or client.connect raised (refused,
\* unreachable) and the exception was caught.  send_file raises RuntimeError.
SendConnectFailed ==
  /\ pc = "idle"
  /\ path_ok
  /\ ~pub_connected
  /\ raised' = "RuntimeError"
  /\ pc' = "failed"
  /\ UNCHANGED <<source, chunk_size, stateFile, files, message_count, pubs, acks,
                 index, bus, path_ok, pub_connected, session>>

\* chunk_size is 0: the publisher is connected (or connects), then
\* "(total_size + chunk_size - 1) // chunk_size" raises ZeroDivisionError.
SendZeroDivision ==
  /\ pc = "idle"
  /\ path_ok
  /\ chunk_size = 0
  /\ pub_connected' = TRUE
  /\ raised' = "ZeroDivisionError"
  /\ pc' = "failed"
  /\ UNCHANGED <<source, chunk_size, stateFile, files, message_count, pubs, acks,
                 index, bus, path_ok, session>>

\* One call of send_file; nothing is delivered, so bus is the sequence of
\* the messages the call has published.
NextSender ==
  \/ SendFileNotFound
  \/ SendConnectFailed
  \/ SendZeroDivision
  \/ SendManifest
  \/ SendChunk
  \/ SendProbe

SpecSender == InitSender /\ [][NextSender]_vars

\* MQTTPublisher._on_disconnect: the connection is lost while send_file is
\* in its chunk loop.
PubDisconnect ==
  /\ pc = "chunks"
  /\ pub_connected
  /\ pub_connected' = FALSE
  /\ UNCHANGED <<source, chunk_size, stateFile, files, message_count, pubs, acks, pc,
                 index, bus, path_ok, raised, session>>

\* MQTTPublisher._on_connect: the client's network loop has reconnected.
PubReconnect ==
  /\ pc = "chunks"
  /\ ~pub_connected
  /\ pub_connected' = TRUE
  /\ UNCHANGED <<source, chunk_size, stateFile, files, message_count, pubs, acks, pc,
                 index, bus, path_ok, raised, session>>

NextDrop == NextSender \/ PubDisconnect \/ PubReconnect

SpecDrop == InitSender /\ [][NextDrop]_vars

\* The bus loses a chunk message: it is never delivered.  send_file subscribes
\* to no topic and registers no handler, so the receiver's retry requests and
\* acks reach no code of the sender and the sender has no step besides these.
BusLoseChunk ==
  /\ \E k \in 1..Len(bus) :
       /\ bus[k].kind = "chunk"
       /\ bus' = SubSeq(bus, 1, k - 1) \o SubSeq(bus, k + 1, Len(bus))
  /\ UNCHANGED <<source, chunk_size, stateFile, files, message_count, pubs, acks,
                 pc, index, caller, session>>

NextLossy == SendManifest \/ SendChunk \/ SendProbe \/ BusDeliverNext \/ BusLoseChunk

SpecLossy == Init /\ [][NextLossy]_vars

(* --------------------------- long transfers ---------------------------- *)
\* A file of n zero bytes.
Zeros(n) == [i \in 1..n |-> 0]

\* File sizes in chunks of one byte: one more than the status period, and
\* the cap of the missing list, one more and two more.
LongSizes == {StatusEvery + 1, StatusCap, StatusCap + 1, StatusCap + 2}

\* Numbers of chunks received before the run observed starts.
Prefixes == {0, 1, 2, StatusEvery - 2, StatusEvery - 1, StatusEvery}

\* The manifest send_file builds for a file of n zero bytes with chunk_size 1:
\* n chunks of one zero byte each.
LongManifest(n) ==
  [ file_id      |-> FileId,
    name         |-> SrcName,
    size         |-> n,
    chunk_size   |-> 1,
    total_chunks |-> n,
    file_sha256  |-> Sha256(Zeros(n)),
    chunk_sha256 |-> [k \in 1..n |-> Sha256(<<0>>)] ]

\* The chunk payload of index i of such a file.
LongChunk(i) ==
  [ file_id     |-> FileId,
    chunk_index |-> i,
    sha256      |-> Sha256(<<0>>),
    data        |-> Hex(<<0>>) ]

LongMetaMsg(n) == [kind |-> "meta", body |-> LongManifest(n)]

LongChunkMsg(i) == [kind |-> "chunk", body |-> LongChunk(i)]

\* state.json after the manifest of the file and its chunks 0..k-1, for
\* k < n, arrived in order: the manifest's fields and received = [0..k-1].
PrefixState(n, k) ==
  SaveState([LoadState(OnMessage(None, NoFiles, LongMetaMsg(n)).stateFile)
               EXCEPT !.received = [j \in 1..k |-> j - 1]])

\* The storage directory then: the data file holds the k bytes written.
PrefixFiles(k) ==
  IF k = 0 THEN NoFiles ELSE [NoFiles EXCEPT ![SrcName] = Some(Zeros(k))]

\* A receiver in the middle of a long transfer.
InitLong ==
  /\ source \in {Zeros(n) : n \in LongSizes}
  /\ chunk_size = 1
  /\ \E k \in Prefixes :
       /\ stateFile = PrefixState(Len(source), k)
       /\ files = PrefixFiles(k)
  /\ message_count = 0
  /\ pubs = <<>>
  /\ acks = 0
  /\ pc = "idle"
  /\ index = 0
  /\ bus = <<>>
  /\ path_ok = TRUE
  /\ pub_connected = FALSE
  /\ raised = "none"
  /\ sub_connected = TRUE
  /\ subscribed = TRUE

\* The next chunk of the file arrives.
DeliverNextChunk ==
  /\ Within
  /\ Len(LoadState(stateFile).received) < Len(source)
  /\ Receive(LongChunkMsg(Len(LoadState(stateFile).received)))
  /\ UNCHANGED <<source, chunk_size, pc, index, bus, caller, session>>

\* Chunk 0 arrives again.
DeliverFirstAgain ==
  /\ Within
  /\ 0 \in SeqToSet(LoadState(stateFile).received)
  /\ Receive(LongChunkMsg(0))
  /\ UNCHANGED <<source, chunk_size, pc, index, bus, caller, session>>

\* The manifest arrives again.
DeliverLongMeta ==
  /\ Within
  /\ Receive(LongMetaMsg(Len(source)))
  /\ UNCHANGED <<source, chunk_size, pc, index, bus, caller, session>>

NextLong == DeliverNextChunk \/ DeliverFirstAgain \/ DeliverLongMeta \/ DeliverProbe

SpecLong == InitLong /\ [][NextLong]_vars

(* ---------------------------- properties ------------------------------- *)
\* The receiver's view of its persisted state.
St == LoadState(stateFile)

ReceivedSet == SeqToSet(St.received)

\* The data file the persisted manifest names (None: no such file).
DataFile == IF St.name = None THEN None ELSE files[St.name[1]]

\* C1: the receiver publishes at most one ack for the file_id, whatever
\* messages arrive and however often they are redelivered.
C1_AckAtMostOnce == acks <= 1

\* Every chunk of a non-empty source is in received and the data file equals
\* the source.
Transferred ==
  /\ Len(source) > 0
  /\ ReceivedSet = 0..(TotalChunks(Len(source), chunk_size) - 1)
  /\ DataFile = Some(source)

\* C1 witness: after a transfer was acked, a later handler (a redelivered
\* manifest, a probe) has published a status reporting the transfer complete,
\* without a second ack.
C1_AckThenRedelivery ==
  /\ Transferred
  /\ acks = 1
  /\ AckCount(pubs) = 0
  /\ Len(pubs) > 0
  /\ pubs[1].kind = "status"
  /\ pubs[1].body.complete

C3_ReceivedInRange ==
  /\ \A k \in 1..Len(St.received) :
       /\ St.total_chunks /= None
       /\ St.received[k] \in 0..(St.total_chunks[1] - 1)
  /\ Cardinality(ReceivedSet) = Len(St.received)

\* The bytes of the data file where chunk i belongs equal chunk i of the source.
RegionMatches(i) ==
  LET block == ReadChunks(source, chunk_size)[i + 1]
      off   == i * St.chunk_size[1]
  IN /\ DataFile /= None
     /\ Len(DataFile[1]) >= off + Len(block)
     /\ SubSeq(DataFile[1], off + 1, off + Len(block)) = block

\* C4: for every index in received, the data file holds the source's bytes
\* of that chunk at offset index * chunk_size.
C4_ReceivedRegionsIntact ==
  \A i \in ReceivedSet :
    i \in 0..(TotalChunks(Len(source), chunk_size) - 1) => RegionMatches(i)

\* C5: between handler invocations, complete implies that the sha256 of the
\* data file is the manifest's file_sha256.
C5_CompleteImpliesDigest ==
  St.complete => (DataFile /= None /\ St.file_sha256 = Some(Sha256(DataFile[1])))

\* send_file has returned and every message it published has been delivered.
Delivered == pc = "done" /\ bus = <<>>

\* C6: after send_file over a bus that delivers every message once and in
\* order, the data file equals the source, complete is set and exactly one
\* ack has been published.
C6_RoundTrip ==
  Delivered => (DataFile = Some(source) /\ St.complete /\ acks = 1)

\* C7: once the manifest of an empty file has been handled, the transfer is
\* complete and the ack has been published.
C7_EmptyFileAcked ==
  (Len(source) = 0 /\ St.name /= None) => (St.complete /\ St.ack_sent /\ acks = 1)

\* The receiver after the messages of a stream, handled in order.
RECURSIVE After(_, _, _)
After(sf, fs, stream) ==
  IF Len(stream) = 0 THEN [stateFile |-> sf, files |-> fs]
  ELSE LET out == OnMessage(sf, fs, Head(stream))
       IN After(out.stateFile, out.files, Tail(stream))

\* The stream send_file publishes: manifest, chunks by ascending index, probe.
InOrderStream ==
  <<MetaMsg(source, chunk_size)>>
    \o [k \in 1..Len(ReadChunks(source, chunk_size)) |->
          ChunkMsg(source, chunk_size, k - 1)]
    \o <<ProbeMsg>>

\* received (as a set), complete, ack_sent and the data file.
Terminal(sf, fs) ==
  LET state == LoadState(sf) IN
  [ received |-> SeqToSet(state.received),
    complete |-> state.complete,
    ack_sent |-> state.ack_sent,
    data     |-> IF state.name = None THEN None ELSE fs[state.name[1]] ]

\* C8: whatever the order in which the manifest and the chunks are delivered,
\* the receiver ends in the state the in-order stream ends in.
C8_OrderIndependent ==
  Delivered =>
    LET inorder == After(None, NoFiles, InOrderStream)
    IN Terminal(stateFile, files) = Terminal(inorder.stateFile, inorder.files)

\* A chunk message is delivered whose index is already in received and whose
\* bytes pass the per-chunk hash check.
DeliverVerifiedDuplicate ==
  \E c \in AnyChunks :
    /\ c.chunk_index \in ReceivedSet
    /\ TruthyList(St.chunk_sha256)
    /\ c.chunk_index \in 0..(Len(St.chunk_sha256[1]) - 1)
    /\ ~ChunkHashMismatch(St, c.chunk_index, FromHex(c.data))
    /\ Receive([kind |-> "chunk", body |-> c])

\* C9: delivering such a duplicate leaves received, complete, ack_sent and
\* the data file as they were.
C9_DuplicateIdempotent ==
  [][DeliverVerifiedDuplicate =>
       /\ LoadState(stateFile').received = St.received
       /\ LoadState(stateFile').complete = St.complete
       /\ LoadState(stateFile').ack_sent = St.ack_sent
       /\ files' = files]_vars

C11_LossRecovered == (Delivered /\ Len(source) > 0) => acks = 1

\* C12: when send_file has returned the file_id, it has published one
\* manifest, then one chunk for each index 0..total_chunks-1 in ascending
\* order (as many as the manifest's total_chunks and chunk_sha256 entries),
\* then one status probe; and at no time is a chunk published before the
\* manifest.
C12_PublishSequence ==
  /\ \A k \in 1..Len(bus) : bus[k].kind = "chunk" => (k > 1 /\ bus[1].kind = "meta")
  /\ pc = "done" =>
       LET n == Len(bus) - 2 IN
       /\ n >= 0
       /\ bus[1].kind = "meta"
       /\ bus[Len(bus)] = ProbeMsg
       /\ n = bus[1].body.total_chunks
       /\ n = Len(bus[1].body.chunk_sha256)
       /\ \A k \in 1..n :
            /\ bus[k + 1].kind = "chunk"
            /\ bus[k + 1].body.chunk_index = k - 1

\* C14: send_file called with a path that is no file or with chunk_size <= 0
\* publishes nothing, and once it has left its first line it has raised.
C14_InvalidInputRejected ==
  (~path_ok \/ chunk_size <= 0) =>
    /\ bus = <<>>
    /\ pc /= "idle" => (pc = "failed" /\ raised /= "none")

\* C15: a send_file that ended with the RuntimeError of a failed connect has
\* published nothing, and the publisher is still not connected.
C15_NoPublishOnConnectFailure ==
  raised = "RuntimeError" => (bus = <<>> /\ pc = "failed" /\ ~pub_connected)

\* C15 witness: send_file of a non-empty file with a valid chunk_size ended
\* with that error.
C15_ConnectFailed ==
  /\ raised = "RuntimeError"
  /\ Len(source) > 0
  /\ chunk_size >= 1
  /\ path_ok

\* The manifest fields of a state.
ManifestFields(state) ==
  <<state.name, state.size, state.chunk_size, state.total_chunks,
    state.file_sha256, state.chunk_sha256>>

ManifestCommitted(state) == \A k \in 1..6 : ManifestFields(state)[k] /= None

\* C13: once the manifest fields of the persisted state are all set, no
\* inbound message changes any of them.
C13_ManifestImmutable ==
  [][ManifestCommitted(St) =>
       ManifestFields(LoadState(stateFile')) = ManifestFields(St)]_vars

\* C16: whenever the receiver's session is up, after start() and after every
\* automatic reconnect, the broker holds its subscription <prefix>/file/+/+,
\* so that what is published from then on is delivered to its handler.
C16_SubscribedWhenConnected == sub_connected => subscribed

\* The handler of chunk c reaches the completion check and finds the sha256
\* of the data file different from file_sha256.
FindsWholeFileMismatch(c) ==
  LET idx  == c.chunk_index
      blob == FromHex(c.data)
  IN /\ St.name /= None
     /\ idx * Stride(St, blob) >= 0
     /\ ~ChunkHashMismatch(St, idx, blob)
     /\ CompletionDue(MarkReceived(St, idx))
     /\ WholeFileMismatch(MarkReceived(St, idx),
                          Written(files, St.name[1], idx * Stride(St, blob), blob)[St.name[1]][1])

\* C17: a chunk handler whose completion check finds the whole-file digest
\* wrong leaves complete false and publishes a status message and a retry
\* request with a non-empty list of indices.
C17_MismatchRequestsRetry ==
  [][\A c \in AnyChunks :
       (FindsWholeFileMismatch(c) /\ Receive([kind |-> "chunk", body |-> c])) =>
         /\ ~LoadState(stateFile').complete
         /\ Len(pubs') = 2
         /\ pubs'[1].kind = "status"
         /\ pubs'[2].kind = "retry"
         /\ Len(pubs'[2].body.missing) > 0]_vars

\* The manifest is committed and the bytes of chunk c hash to something else
\* than the manifest's chunk_sha256 entry for its index.
MismatchedChunk(c) ==
  /\ St.name /= None
  /\ TruthyList(St.chunk_sha256)
  /\ c.chunk_index \in 0..(Len(St.chunk_sha256[1]) - 1)
  /\ Sha256(FromHex(c.data)) /= St.chunk_sha256[1][c.chunk_index + 1]

\* C18: the handler of such a chunk leaves received as it was and publishes
\* a status message and a retry request that lists the chunk's index.
C18_MismatchDiscarded ==
  [][\A c \in AnyChunks :
       (MismatchedChunk(c) /\ Receive([kind |-> "chunk", body |-> c])) =>
         /\ LoadState(stateFile').received = St.received
         /\ Len(pubs') = 2
         /\ pubs'[1].kind = "status"
         /\ pubs'[2].kind = "retry"
         /\ c.chunk_index \in SeqToSet(pubs'[2].body.missing)]_vars

\* A chunk message is delivered while no manifest is committed: name and
\* chunk_size are null in the state.
DeliverEarlyChunk ==
  /\ St.name = None
  /\ St.chunk_size = None
  /\ \E c \in AnyChunks : Receive([kind |-> "chunk", body |-> c])

SelfOriginated(msg) ==
  \/ msg.kind \in {"retry", "ack"}
  \/ msg.kind = "status" /\ msg.body /= ProbeMsg.body

\* C20: when one of the receiver's own publications is delivered back to
\* it, its handler publishes nothing.
C20_EchoIsSilent ==
  [][(Len(bus) > 0 /\ SelfOriginated(Head(bus)) /\ BusDeliverEcho) => pubs' = <<>>]_vars

\* complete is persisted, ack_sent is not, and the data file matches
\* file_sha256.
CompleteUnacked ==
  /\ St.complete
  /\ ~St.ack_sent
  /\ DataFile /= None
  /\ St.file_sha256 = Some(Sha256(DataFile[1]))

\* The manifest or a chunk of the source is delivered again.
Redelivery ==
  \/ Receive(MetaMsg(source, chunk_size))
  \/ \E i \in 0..(Len(ReadChunks(source, chunk_size)) - 1) :
       Receive(ChunkMsg(source, chunk_size, i))

\* C21: from a state that is complete but not acked, with a data file that
\* matches, the handler of a redelivered manifest or chunk publishes the ack.
C21_AckAfterInterruption ==
  [][(CompleteUnacked /\ Redelivery) => acks' = acks + 1]_vars

\* C22: the handler of an inconsistent or incomplete manifest leaves
\* state.json as it was.
C22_BadManifestRejected ==
  [][\A meta \in BadManifests :
       Receive([kind |-> "meta", body |-> meta]) => stateFile' = stateFile]_vars

\* C26: the handler of a payload that is not UTF-8 JSON, or of a JSON payload
\* lacking a field of its kind, changes neither state.json nor the data file
\* and publishes nothing.
C26_MalformedDiscarded ==
  [][\A msg \in Malformed :
       Receive(msg) => (stateFile' = stateFile /\ files' = files /\ pubs' = <<>>)]_vars

\* C23: a message delivered on the topic of another file_id, whatever its
\* payload names, and a message of a kind other than meta, chunk and status
\* leave state.json and the data file of this file_id as they were.
C23_IsolatedByTopic ==
  [][\A topic_id \in FileIds, msg \in TopicMessages :
       (/\ topic_id /= FileId \/ msg.kind \notin {"meta", "chunk", "status"}
        /\ ReceiveOn(topic_id, msg))
         => (stateFile' = stateFile /\ files' = files)]_vars

\* The indices of the persisted manifest's chunks that are not in received.
MissingSet ==
  IF St.total_chunks = None THEN {}
  ELSE {i \in 0..(St.total_chunks[1] - 1) : i \notin ReceivedSet}

\* The list holds the smallest indices of the set, at most StatusCap of
\* them, in ascending order.
SmallestOf(list, set) ==
  /\ Len(list) = Min(StatusCap, Cardinality(set))
  /\ \A j \in 1..Len(list) : list[j] \in set
  /\ \A j \in 1..(Len(list) - 1) : list[j] < list[j + 1]
  /\ \A x \in set : x \in SeqToSet(list) \/ \A j \in 1..Len(list) : list[j] < x

\* C24: every status the receiver publishes carries total, received and
\* complete of the persisted state and, as missing, the ascending list of the
\* at most 500 smallest indices not in received; a retry follows the status
\* exactly when that list is not empty, with the same list, and no retry is
\* published otherwise.
C24_StatusReflectsState ==
  \A i \in 1..Len(pubs) :
    /\ pubs[i].kind = "status" =>
         /\ pubs[i].body.total = St.total_chunks
         /\ pubs[i].body.received = Len(St.received)
         /\ pubs[i].body.complete = St.complete
         /\ SmallestOf(pubs[i].body.missing, MissingSet)
         /\ pubs[i].body.missing /= <<>>
              <=> (i < Len(pubs) /\ pubs[i + 1].kind = "retry")
         /\ pubs[i].body.missing /= <<>>
              => pubs[i + 1].body.missing = pubs[i].body.missing
    /\ pubs[i].kind = "retry" => (i > 1 /\ pubs[i - 1].kind = "status")

\* A status was published while more than 500 chunks were missing, and the
\* retry followed it.
C24_CappedStatus ==
  /\ Len(pubs) = 2
  /\ pubs[1].kind = "status"
  /\ pubs[2].kind = "retry"
  /\ Cardinality(MissingSet) > StatusCap
  /\ Len(pubs[1].body.missing) = StatusCap
  /\ Len(St.received) > 0

\* The handler published a status.
StatusPublished == pubs' /= <<>> /\ pubs'[1].kind = "status"

\* The step brought the number of received chunks up to a positive multiple
\* of the status period.
ReachedPeriod ==
  /\ Len(LoadState(stateFile').received) > Len(LoadState(stateFile).received)
  /\ Len(LoadState(stateFile').received) % StatusEvery = 0

\* C25: the arrival of a chunk of the file publishes a status exactly when
\* it raises the number of received chunks to a positive multiple of 50; the
\* arrival of a chunk already received publishes none.
C25_PeriodicOnIncrease ==
  [][(DeliverNextChunk \/ DeliverFirstAgain) => (StatusPublished <=> ReachedPeriod)]_vars

\* C27: whatever write failed while earlier chunk messages were handled,
\* state.json stays readable and a chunk of the file delivered once a
\* manifest has been stored is processed and is in received afterwards.
C27_FailedWriteRecoverable ==
  [][\A i \in 0..(Len(ReadChunks(source, chunk_size)) - 1) :
       (stateFile /= None /\ Receive(ChunkMsg(source, chunk_size, i)))
         => /\ stateFile' /= TornFile
            /\ i \in SeqToSet(LoadState(stateFile').received)]_vars

\* C28: when send_file has returned the file_id, the manifest, every chunk
\* and the status inquiry were each accepted by publish.
C28_ReturnsOnlyIfAllAccepted ==
  pc = "done" => Len(bus) = 2 + Len(ReadChunks(source, chunk_size))

=============================================================================
